---------------------------- MODULE Spec2Model ----------------------------
(***************************************************************************)
(* A model of layman's catalog reconciliation engine:                      *)
(*   - the multi-source fallback of an overlay entity   (overlay.py),      *)
(*   - the local registry DB.add / DB.delete / DB.sync  (db.py),           *)
(*   - the remote catalog cache RemoteDB.cache          (db.py),           *)
(*   - the catalog parser DbBase.read                   (dbbase.py).       *)
(*                                                                         *)
(* Three specifications share the module.  Spec drives the local          *)
(* registry, SpecOverlay drives Overlay.add on one entity, SpecCache       *)
(* drives the remote catalog cache; each leaves the other components'      *)
(* variables as constructed.                                               *)
(*                                                                         *)
(* Reading of the source.  db.py still passes a trailing `quiet` argument  *)
(* to Overlay.add, Overlay.sync and DbBase.__init__ (db.py:64-68, 124,     *)
(* 225, 268), which no longer declare it.  The model follows the logic of  *)
(* the callees and treats the stale argument as ignored; every statement   *)
(* below about DB and RemoteDB is relative to that reading.                *)
(*                                                                         *)
(* Entities are modelled by value.  The only mutators of an entity are     *)
(* Overlay.add (the source list) and Overlay.set_priority, and DB.add      *)
(* calls both on the passed entity before it stores it, so an entity is    *)
(* never changed while a registry holds it.                                *)
(***************************************************************************)
EXTENDS Integers, Sequences, FiniteSets, TLC

\* ------------------------------------------------------------------ bounds

\* Longest list of source candidates an entity is constructed with.
MaxSources == 3

\* Priority of an entity whose definition has no priority attribute.
DefaultPriority == 50

\* Overlay names, status codes and priorities in play.  A source candidate
\* is named by a number.
Names == {"foo", "bar"}
Backends == 1..MaxSources
Statuses == {0, 1, 2}
Priorities == {DefaultPriority, 10}

\* ------------------------------------------------------- small vocabulary

Some(x) == <<x>>
None == <<>>

\* Mutant: every entity is stored under the one key "foo".
Put_FixedKey(f, k, v) ==
    [x \in DOMAIN f \cup {"foo"} |-> IF x = "foo" THEN v ELSE f[x]]

Put(f, k, v) == [x \in DOMAIN f \cup {k} |-> IF x = k THEN v ELSE f[x]]
\* Mutant: the key is not removed.
Remove_Nothing(f, k) == f

Remove(f, k) == [x \in DOMAIN f \ {k} |-> f[x]]
EmptyMap == [x \in {} |-> x]

\* The source lists Overlay.add is driven with (from_dict accepts an empty
\* list), and the ones of the entities handed to the local registry.
SourceLists == UNION {[1..n -> Backends] : n \in 0..MaxSources}
DBSourceLists == {<<1>>, <<2>>, <<1, 2>>}

\* An overlay entity, as far as the registry operations read or write it:
\* its name, sources and priority, and the fields on which the two
\* construction paths differ (owner_email and owner_name are None, or hold
\* a text that may be empty; the description is a text).  An entity made by
\* this constructor has an owner email, no owner name and a description.
Entity(n, srcs, p) ==
    [name |-> n, sources |-> srcs, priority |-> p, owner_email |-> Some("e"),
     owner_name |-> None, description |-> "d"]
Entities == {Entity(n, srcs, DefaultPriority) : n \in Names, srcs \in DBSourceLists}

\* What one call of a source backend's add does: return a status, or raise.
Returned(s) == [raised |-> FALSE, status |-> s]
Raised == [raised |-> TRUE, status |-> 1]
Outcomes == {Returned(s) : s \in Statuses} \cup {Raised}

VARIABLES
    config,       \* DB: the configuration keys DB.add reads
    overlays,     \* DB: self.overlays, name -> entity
    localFile,    \* DB: the overlay nodes persisted in config['local_list']
    last,         \* the call that ended last (inputs, calls made, result)
    entity,       \* SpecOverlay: the entity Overlay.add is called on
    rignore,      \* RemoteDB: self.ignore
    roverlays,    \* RemoteDB: self.overlays, name -> entity
    mcache,       \* RemoteDB: per URL, the content file <hash>.xml
    tcache,       \* RemoteDB: per URL, the sidecar <hash>.timestamp
    cacheDir,     \* RemoteDB: whether the cache directory exists
    cpc,          \* RemoteDB.cache: idle, running, returned or raised
    pos,          \* RemoteDB.cache: index of the URL the loop is at
    has_updates,  \* RemoteDB.cache: the local has_updates
    kinds,        \* RemoteDB.cache: how each iteration of this call ended
    clast         \* RemoteDB.cache: the iteration that ran last

dbVars == <<config, overlays, localFile, last, entity>>
cacheVars == <<rignore, roverlays, mcache, tcache, cacheDir, cpc, pos,
               has_updates, kinds, clast>>

\* ------------------------------------------------------ the overlay entity

\* Mutant: the loop without the break after a success.
RECURSIVE AddLoop_NoBreak(_, _, _, _)
AddLoop_NoBreak(srcs, out, i, st) ==
    IF i > Len(srcs) THEN st
    ELSE LET tried2 == Append(st.tried, i) IN
         IF out[i].raised
         THEN AddLoop_NoBreak(srcs, out, i + 1, [st EXCEPT !.tried = tried2])
         ELSE AddLoop_NoBreak(srcs, out, i + 1,
                  [res |-> out[i].status,
                   sources |-> IF out[i].status = 0 THEN <<srcs[i]>>
                               ELSE st.sources,
                   tried |-> tried2])

\* Mutant: a candidate that raises ends the loop.
RECURSIVE AddLoop_RaiseEndsLoop(_, _, _, _)
AddLoop_RaiseEndsLoop(srcs, out, i, st) ==
    IF i > Len(srcs) THEN st
    ELSE LET tried2 == Append(st.tried, i) IN
         IF out[i].raised
         THEN [st EXCEPT !.tried = tried2]
         ELSE IF out[i].status = 0
              THEN [res |-> 0, sources |-> <<srcs[i]>>, tried |-> tried2]
              ELSE AddLoop_RaiseEndsLoop(srcs, out, i + 1,
                           [st EXCEPT !.res = out[i].status, !.tried = tried2])

\* Overlay.add: the fallback loop from candidate i on; st carries res, the
\* entity's source list and the candidates attempted so far.
RECURSIVE AddLoop(_, _, _, _)
AddLoop(srcs, out, i, st) ==
    IF i > Len(srcs) THEN st
    ELSE LET tried2 == Append(st.tried, i) IN
         IF out[i].raised
         THEN AddLoop(srcs, out, i + 1, [st EXCEPT !.tried = tried2])
         ELSE IF out[i].status = 0
              THEN [res |-> 0, sources |-> <<srcs[i]>>, tried |-> tried2]
              ELSE AddLoop(srcs, out, i + 1,
                           [st EXCEPT !.res = out[i].status, !.tried = tried2])

\* Mutant: the candidates' statuses are not kept, a failure is reported as 1.
OverlayAdd_StatusLost(srcs, out) ==
    LET r == AddLoop(srcs, out, 1,
                     [res |-> 1, sources |-> srcs, tried |-> <<>>])
    IN [r EXCEPT !.res = IF @ = 0 THEN 0 ELSE 1]

\* Mutant: the other sources are not thrown away after a success.
OverlayAdd_KeepsList(srcs, out) ==
    LET r == AddLoop(srcs, out, 1,
                     [res |-> 1, sources |-> srcs, tried |-> <<>>])
    IN [r EXCEPT !.sources = srcs]

\* Mutant: a candidate that failed is dropped from the source list.
OverlayAdd_DropsFailed(srcs, out) ==
    LET r == AddLoop(srcs, out, 1,
                     [res |-> 1, sources |-> srcs, tried |-> <<>>])
    IN IF r.res # 0 /\ srcs # <<>> THEN [r EXCEPT !.sources = Tail(srcs)]
       ELSE r

OverlayAdd(srcs, out) ==
    AddLoop(srcs, out, 1, [res |-> 1, sources |-> srcs, tried |-> <<>>])

\* Mutant: set_priority leaves the entity as it was.
SetPriority_Ignored(e, priority) == e

SetPriority(e, priority) == [e EXCEPT !.priority = priority]

\* Overlay.sync / Overlay.delete: the assertion, then the single source's call.
OverlayDelegate(e, status) ==
    IF Len(e.sources) = 1
    THEN [asserted |-> FALSE, res |-> status, called |-> <<e.sources[1]>>]
    ELSE [asserted |-> TRUE, res |-> -1, called |-> <<>>]


\* ------------------------------------------------------- the catalog store

\* Overlay.to_xml: the node written for an entity (name, priority, every
\* remaining source, the description, the owner's email element with the
\* entity's owner_email as its text and the owner's name when there is one).
ToXml(e) ==
    [name |-> e.name, priority |-> e.priority, sources |-> e.sources,
     description |-> e.description, owner_email |-> e.owner_email,
     owner_name |-> e.owner_name]

\* How DbBase.write can end: the document is written, or opening the file
\* fails and the wrapped exception is raised with the file as it was.
WriteOutcomes == {"ok", "open_fails"}

\* DbBase.write(path): the whole mapping is serialised into one document.
Write(ovls, file, wr) ==
    IF wr = "ok"
    THEN [raised |-> FALSE, file |-> {ToXml(ovls[k]) : k \in DOMAIN ovls}]
    ELSE [raised |-> TRUE, file |-> file]

\* DbBase.select(name)
Select(ovls, name) ==
    IF name \in DOMAIN ovls
    THEN [raised |-> FALSE, entity |-> Some(ovls[name])]
    ELSE [raised |-> TRUE, entity |-> None]

\* -------------------------------------------------------- the local registry

\* The record of a call: its argument before and after, what the source
\* candidates did (out) and which were attempted (tried), the status the
\* entity returned (res), how the call ended (ret, exc), how the write ended,
\* the notification sent to the external config collaborator, the message,
\* and the calls the handler made, in the order it made them (steps).
NoCall == [op |-> "none", arg |-> None, after |-> None, out |-> <<>>,
           tried |-> <<>>, res |-> -1, ret |-> "none", exc |-> "none",
           wrote |-> "none", notified |-> "none", make_ok |-> TRUE,
           msg |-> "none", backend |-> <<>>, steps |-> <<>>,
           mdir_exists |-> FALSE, error |-> None, other |-> None,
           order |-> <<>>, warned |-> {}]

\* Mutant: the plain failure message whether or not the directory is left.
FailureMessage_Plain(exists) == "failed"

\* db.py:138-148: the error DB.add emits after a failed add, by whether the
\* overlay's working directory exists after delete_empty_directory.
FailureMessage(exists) == IF exists THEN "failed, remains left" ELSE "failed"

\* DB.add(overlay) for a name the registry does not hold (db.py:124-148).
\* out: what each candidate's add does when attempted; wr: how the write
\* ends; mk: the collaborator's answer; left: whether the working directory
\* still exists after delete_empty_directory.
DBAddNew(cfg, ovls, file, e, out, wr, mk, left) ==
    LET base == [NoCall EXCEPT !.op = "add", !.arg = Some(e)]
        unchanged == [overlays |-> ovls, file |-> file]
        a == OverlayAdd(e.sources, out)
        e1 == [e EXCEPT !.sources = a.sources]
        called == [base EXCEPT !.tried = a.tried, !.res = a.res, !.out = out,
                               !.steps = <<"overlay.add">>]
    IN
    IF a.res = 0
    THEN LET e2 == IF cfg.has_priority THEN SetPriority(e1, cfg.priority)
                   ELSE e1
             ovls2 == Put(ovls, e2.name, e2)
             w == Write(ovls2, file, wr)
             stored == [overlays |-> ovls2, file |-> w.file]
             wrote == [called EXCEPT
                          !.after = Some(e2), !.wrote = wr,
                          !.steps = @ \o (IF cfg.has_priority
                                          THEN <<"set_priority">> ELSE <<>>)
                                      \o <<"insert", "write">>]
         IN IF w.raised
            THEN stored @@
                 [last |-> [wrote EXCEPT !.ret = "raise", !.exc = "write"]]
            ELSE IF cfg.make_conf
                 THEN stored @@
                      [last |-> [wrote EXCEPT !.notified = "add",
                                              !.make_ok = mk,
                                              !.steps = Append(@, "notify"),
                                              !.ret = IF mk THEN "True"
                                                    ELSE "False"]]
                 ELSE stored @@ [last |-> [wrote EXCEPT !.ret = "True"]]
    ELSE unchanged @@
         [last |-> [called EXCEPT !.after = Some(e1), !.ret = "False",
                                  !.steps = @ \o <<"delete_empty_directory",
                                                   "error">>,
                                  !.mdir_exists = left,
                                  !.msg = FailureMessage(left)]]

\* Mutant: the check for a name already in the registry is missing.
DBAddResult_NoDuplicateCheck(cfg, ovls, file, e, out, wr, mk, left) ==
    DBAddNew(cfg, ovls, file, e, out, wr, mk, left)

\* Mutant: a failure of the external config's add undoes the add.
DBAddResult_RollsBack(cfg, ovls, file, e, out, wr, mk, left) ==
    IF e.name \in DOMAIN ovls
    THEN [overlays |-> ovls, file |-> file,
          last |-> [NoCall EXCEPT !.op = "add", !.arg = Some(e),
                                  !.after = Some(e), !.ret = "False",
                                  !.msg = "already in the local list"]]
    ELSE LET r == DBAddNew(cfg, ovls, file, e, out, wr, mk, left) IN
         IF r.last.notified = "add" /\ ~r.last.make_ok
         THEN [overlays |-> ovls, file |-> file, last |-> r.last]
         ELSE r

\* Mutant: the entity is stored although its add failed.
DBAddResult_KeepsFailed(cfg, ovls, file, e, out, wr, mk, left) ==
    IF e.name \in DOMAIN ovls
    THEN [overlays |-> ovls, file |-> file,
          last |-> [NoCall EXCEPT !.op = "add", !.arg = Some(e),
                                  !.after = Some(e), !.ret = "False",
                                  !.msg = "already in the local list"]]
    ELSE LET r == DBAddNew(cfg, ovls, file, e, out, wr, mk, left) IN
         IF r.last.res # 0
         THEN [r EXCEPT !.overlays = Put(ovls, e.name, r.last.after[1])]
         ELSE r

\* DB.add(overlay): a name already in the registry is refused.
DBAddResult(cfg, ovls, file, e, out, wr, mk, left) ==
    IF e.name \in DOMAIN ovls
    THEN [overlays |-> ovls, file |-> file,
          last |-> [NoCall EXCEPT !.op = "add", !.arg = Some(e),
                                  !.after = Some(e), !.ret = "False",
                                  !.msg = "already in the local list"]]
    ELSE DBAddNew(cfg, ovls, file, e, out, wr, mk, left)

\* Mutant: a non-zero status of the backend's delete ends DB.delete with
\* False and the registry as it was.
DBDeleteResult_StatusMatters(ovls, file, e, st, wr) ==
    LET base == [NoCall EXCEPT !.op = "delete", !.arg = Some(e),
                               !.after = Some(e)]
        unchanged == [overlays |-> ovls, file |-> file]
    IN
    IF e.name \notin DOMAIN ovls
    THEN unchanged @@
         [last |-> [base EXCEPT !.ret = "False", !.msg = "no local overlay"]]
    ELSE
    LET d == OverlayDelegate(e, st) IN
    IF d.asserted
    THEN unchanged @@
         [last |-> [base EXCEPT !.ret = "raise", !.exc = "assert"]]
    ELSE IF d.res # 0
    THEN unchanged @@
         [last |-> [base EXCEPT !.res = d.res, !.backend = d.called,
                                !.steps = <<"overlay.delete">>,
                                !.ret = "False"]]
    ELSE
    LET ovls2 == Remove(ovls, e.name)
        w == Write(ovls2, file, wr)
        called == [base EXCEPT !.res = d.res, !.backend = d.called,
                               !.wrote = wr,
                               !.steps = <<"overlay.delete", "remove",
                                           "write">>]
        stored == [overlays |-> ovls2, file |-> w.file]
    IN IF w.raised
       THEN stored @@
            [last |-> [called EXCEPT !.ret = "raise", !.exc = "write"]]
       ELSE stored @@
            [last |-> [called EXCEPT !.notified = "delete", !.ret = "True",
                                     !.steps = Append(@, "notify")]]

\* DB.delete(overlay).  st: the status of the backend's delete.
DBDeleteResult(ovls, file, e, st, wr) ==
    LET base == [NoCall EXCEPT !.op = "delete", !.arg = Some(e),
                               !.after = Some(e)]
        unchanged == [overlays |-> ovls, file |-> file]
    IN
    IF e.name \notin DOMAIN ovls
    THEN unchanged @@
         [last |-> [base EXCEPT !.ret = "False", !.msg = "no local overlay"]]
    ELSE
    LET d == OverlayDelegate(e, st) IN
    IF d.asserted
    THEN unchanged @@
         [last |-> [base EXCEPT !.ret = "raise", !.exc = "assert"]]
    ELSE
    LET ovls2 == Remove(ovls, e.name)
        w == Write(ovls2, file, wr)
        called == [base EXCEPT !.res = d.res, !.backend = d.called,
                               !.wrote = wr,
                               !.steps = <<"overlay.delete", "remove",
                                           "write">>]
        stored == [overlays |-> ovls2, file |-> w.file]
    IN IF w.raised
       THEN stored @@
            [last |-> [called EXCEPT !.ret = "raise", !.exc = "write"]]
       ELSE stored @@
            [last |-> [called EXCEPT !.notified = "delete", !.ret = "True",
                                     !.steps = Append(@, "notify")]]

\* Mutant: the message of the exception does not carry the status.
SyncMessage_NoStatus(name, result) ==
    [text |-> "Syncing overlay returned status", name |-> name, status |-> 0]

\* db.py:227-229: the message of the exception DB.sync raises, built from
\* the overlay name and str(result).
SyncMessage(name, result) ==
    [text |-> "Syncing overlay returned status", name |-> name,
     status |-> result]

\* DB.sync(overlay_name).  st: the status of the backend's sync.
DBSyncResult(ovls, name, st) ==
    LET sel == Select(ovls, name)
        base == [NoCall EXCEPT !.op = "sync", !.arg = sel.entity,
                               !.after = sel.entity, !.msg = name]
    IN
    IF sel.raised
    THEN [base EXCEPT !.ret = "raise", !.exc = "unknown overlay"]
    ELSE
    LET d == OverlayDelegate(sel.entity[1], st) IN
    IF d.asserted
    THEN [base EXCEPT !.ret = "raise", !.exc = "assert"]
    ELSE IF d.res # 0
         THEN [base EXCEPT !.res = d.res, !.backend = d.called,
                           !.steps = <<"overlay.sync">>,
                           !.error = Some(SyncMessage(name, d.res)),
                           !.ret = "raise", !.exc = "sync status"]
         ELSE [base EXCEPT !.res = d.res, !.backend = d.called,
                           !.steps = <<"overlay.sync">>,
                           !.ret = "None"]

\* The configurations a registry is constructed with: an optional priority
\* override and an optional make.conf to maintain.
Configs ==
    {[has_priority |-> FALSE, priority |-> DefaultPriority, make_conf |-> m]
        : m \in BOOLEAN}
    \cup {[has_priority |-> TRUE, priority |-> p, make_conf |-> m]
        : p \in Priorities \ {DefaultPriority}, m \in BOOLEAN}

\* DB.__init__ on a local list that does not exist yet: an empty registry.
InitDB ==
    /\ config \in Configs
    /\ overlays = EmptyMap
    /\ localFile = {}
    /\ last = NoCall

\* The candidates of an input whose outcome is drawn: those the loop reaches.
\* A candidate behind the first success is never called and is given the
\* fixed outcome Raised.
Reached(out) ==
    \A i \in 1..Len(out) :
        (\E j \in 1..(i - 1) : ~out[j].raised /\ out[j].status = 0)
            => out[i] = Raised

DBAdd ==
    \E e \in Entities :
      \E out \in [1..Len(e.sources) -> Outcomes] :
        /\ Reached(out)
        /\ e.name \in DOMAIN overlays => \A i \in 1..Len(out) : out[i] = Raised
        /\ LET new == e.name \notin DOMAIN overlays
               ok == new /\ OverlayAdd(e.sources, out).res = 0
           IN \E wr \in (IF ok THEN WriteOutcomes ELSE {"ok"}),
                 mk \in (IF ok /\ config.make_conf THEN BOOLEAN ELSE {TRUE}),
                 left \in (IF new /\ ~ok THEN BOOLEAN ELSE {FALSE}) :
                LET r == DBAddResult(config, overlays, localFile, e, out,
                                     wr, mk, left)
                IN /\ overlays' = r.overlays
                   /\ localFile' = r.file
                   /\ last' = r.last
                   /\ UNCHANGED <<config, entity>>

DBDelete ==
    \E e \in Entities :
      LET known == e.name \in DOMAIN overlays /\ Len(e.sources) = 1
      IN \E st \in (IF known THEN {0, 1} ELSE {0}),
            wr \in (IF known THEN WriteOutcomes ELSE {"ok"}) :
           LET r == DBDeleteResult(overlays, localFile, e, st, wr)
           IN /\ overlays' = r.overlays
              /\ localFile' = r.file
              /\ last' = r.last
              /\ UNCHANGED <<config, entity>>

DBSync ==
    \E name \in Names :
      \E st \in (IF name \in DOMAIN overlays THEN Statuses ELSE {0}) :
        /\ last' = DBSyncResult(overlays, name, st)
        /\ UNCHANGED <<config, overlays, localFile, entity>>

\* ------------------------------------------------- Overlay.add on one entity

InitOverlay ==
    /\ entity \in {Some(Entity(n, srcs, DefaultPriority))
                      : n \in {"foo"}, srcs \in SourceLists}
    /\ last = NoCall

\* Overlay.add(base) called on the entity.
OverlayAddCall ==
    \E out \in [1..Len(entity[1].sources) -> Outcomes] :
        /\ Reached(out)
        /\ LET e == entity[1]
               a == OverlayAdd(e.sources, out)
           IN /\ entity' = Some([e EXCEPT !.sources = a.sources])
              /\ last' = [NoCall EXCEPT !.op = "overlay.add",
                                        !.arg = entity, !.after = entity',
                                        !.out = out,
                                        !.tried = a.tried, !.res = a.res]
        /\ UNCHANGED <<config, overlays, localFile>>

\* ------------------------------------------------------ parsing a catalog

\* The type attributes the backend registry OVERLAY_TYPES knows.
OverlayTypes == {"git", "rsync", "svn"}

\* Mutant: a missing recommended field never makes construction fail.
MissingField_NeverRaises(ignore) == IF ignore = 1 THEN "warn" ELSE "silent"

\* What a missing owner email or description does at an ignore level: the
\* construction raises at level 0, warns at level 1 and says nothing at any
\* other level; in the last two cases the field gets its default.
MissingField(ignore) ==
    IF ignore = 0 THEN "raise" ELSE IF ignore = 1 THEN "warn" ELSE "silent"

\* The warnings a construction that goes through emits.
Warned(email, desc, ignore) ==
    IF MissingField(ignore) = "warn"
    THEN (IF email THEN {} ELSE {"owner.email"})
         \cup (IF desc THEN {} ELSE {"description"})
    ELSE {}

\* Overlay.from_xml(node, ignore): the entity of an overlay node, or the
\* exception.  A node carries its tag, an optional name, its source
\* elements (each with an optional type attribute), whether it has an
\* owner email element (and its text, None for an empty element), an owner
\* name element and a description element (and its text), and an optional
\* priority attribute.
FromXml(node, ignore) ==
    LET typed == SelectSeq(node.sources, LAMBDA x : x.type # None)
        failed == [raised |-> TRUE, entity |-> None, warned |-> {}]
        StripText(text) == IF text = None THEN "" ELSE text[1]
    IN
    IF node.name = None THEN failed
    ELSE IF Len(typed) = 0 THEN failed
    ELSE IF \E i \in 1..Len(typed) : typed[i].type[1] \notin OverlayTypes
         THEN failed
    ELSE IF ~node.email /\ MissingField(ignore) = "raise" THEN failed
    ELSE IF ~node.desc /\ MissingField(ignore) = "raise" THEN failed
    ELSE [raised |-> FALSE,
          warned |-> Warned(node.email, node.desc, ignore),
          entity |-> Some(
              [Entity(node.name[1],
                      [i \in 1..Len(typed) |-> typed[i].src],
                      IF node.priority = None THEN DefaultPriority
                      ELSE node.priority[1])
               EXCEPT !.owner_email = IF node.email
                                      THEN Some(StripText(node.email_text))
                                      ELSE Some(""),
                      !.owner_name = IF node.email /\ node.owner_name
                                     THEN Some("o") ELSE None,
                      !.description = IF node.desc
                                      THEN StripText(node.desc_text)
                                      ELSE ""])]

\* DbBase.read, the loop over the nodes: each entity is stored as soon as it
\* is constructed; an exception leaves what was stored before it.
RECURSIVE ReadNodes(_, _, _, _)
ReadNodes(ovls, nodes, i, ignore) ==
    IF i > Len(nodes) THEN [raised |-> FALSE, overlays |-> ovls]
    ELSE LET c == FromXml(nodes[i], ignore) IN
         IF c.raised THEN [raised |-> TRUE, overlays |-> ovls]
         ELSE ReadNodes(Put(ovls, c.entity[1].name, c.entity[1]), nodes,
                        i + 1, ignore)

\* DbBase.read(text, origin): the 'overlay' nodes first, then the 'repo'
\* nodes, each group in document order.
Read(ovls, doc, ignore) ==
    IF doc.malformed THEN [raised |-> TRUE, overlays |-> ovls]
    ELSE ReadNodes(ovls,
                   SelectSeq(doc.nodes, LAMBDA n : n.tag = "overlay")
                       \o SelectSeq(doc.nodes, LAMBDA n : n.tag = "repo"),
                   1, ignore)

\* Overlay.from_dict(overlay, ignore): the entity of a dictionary, or the
\* exception.  A dictionary carries an optional name, an optional list of
\* sources (location and type), whether it has an owner name, an owner email
\* and a description, and an optional priority.
FromDict(d, ignore) ==
    LET failed == [raised |-> TRUE, entity |-> None, warned |-> {}]
        email == d.owner /\ d.email
    IN
    IF d.name = None THEN failed
    ELSE IF d.sources = None THEN failed
    ELSE IF \E i \in 1..Len(d.sources[1]) :
                d.sources[1][i].type \notin OverlayTypes
         THEN failed
    ELSE IF ~email /\ MissingField(ignore) = "raise" THEN failed
    ELSE IF ~d.desc /\ MissingField(ignore) = "raise" THEN failed
    ELSE [raised |-> FALSE,
          warned |-> Warned(email, d.desc, ignore),
          entity |-> Some(
              [Entity(d.name[1],
                      [i \in 1..Len(d.sources[1]) |-> d.sources[1][i].src],
                      IF d.priority = None \/ d.priority[1] = 0
                      THEN DefaultPriority
                      ELSE d.priority[1])
               EXCEPT !.owner_email = IF email THEN Some("e") ELSE None,
                      !.owner_name = IF d.owner THEN Some("o") ELSE None,
                      !.description = IF d.desc THEN "d" ELSE ""])]

\* DbBase._add_from_dict(overlays): each entity is stored under its name as
\* soon as it is constructed; an exception leaves what was stored before.
RECURSIVE AddFromDict(_, _, _, _)
AddFromDict(ovls, dicts, i, ignore) ==
    IF i > Len(dicts) THEN [raised |-> FALSE, overlays |-> ovls]
    ELSE LET c == FromDict(dicts[i], ignore) IN
         IF c.raised THEN [raised |-> TRUE, overlays |-> ovls]
         ELSE AddFromDict(Put(ovls, c.entity[1].name, c.entity[1]), dicts,
                          i + 1, ignore)

\* The dictionaries add_new is called with: a plain one, one with two
\* sources and a priority, one with neither owner nor description, one
\* without a name and one with an unknown source type.
Dict(name, srcs, owner, prio) ==
    [name |-> name, sources |-> srcs, owner |-> owner, email |-> owner,
     desc |-> owner, priority |-> prio]
DictSource(n, type) == [src |-> n, type |-> type]
Dicts ==
    {Dict(Some("foo"), Some(<<DictSource(1, "git")>>), TRUE, None),
     Dict(Some("bar"),
          Some(<<DictSource(2, "svn"), DictSource(1, "git")>>), TRUE,
          Some(10)),
     Dict(Some("bar"), Some(<<DictSource(1, "rsync")>>), FALSE, Some(0)),
     Dict(None, Some(<<DictSource(1, "git")>>), TRUE, None),
     Dict(Some("foo"), Some(<<DictSource(2, "carrier pigeon")>>), TRUE, None)}
DictLists == {<<d>> : d \in Dicts} \cup {<<c, d>> : c, d \in Dicts}

\* ------------------------------------------------- the remote catalog cache

\* The configured URLs, in order, and the timestamps servers report.
Urls == <<"u1", "u2">>
Timestamps == {1, 2}

GitSource(n) == [type |-> Some("git"), src |-> n]
Node(tag, name, srcs, email, prio) ==
    [tag |-> tag, name |-> Some(name), sources |-> srcs, email |-> email,
     email_text |-> IF email THEN Some("e") ELSE None, owner_name |-> FALSE,
     desc |-> TRUE, desc_text |-> Some("d"), priority |-> prio]
Doc(nodes) == [malformed |-> FALSE, nodes |-> nodes]

\* The bodies a server answers with: text that is no document, a catalog of
\* one overlay, a catalog that redefines it and adds a second one, a
\* catalog whose second node has no source, and a catalog whose only node
\* has no owner email.
DocMalformed == [malformed |-> TRUE, nodes |-> <<>>]
DocOne == Doc(<<Node("repo", "foo", <<GitSource(1)>>, TRUE, None)>>)
DocTwo == Doc(<<Node("overlay", "foo", <<GitSource(2)>>, TRUE, Some(10)),
                Node("repo", "bar", <<GitSource(1)>>, TRUE, None)>>)
DocNoSource == Doc(<<Node("repo", "bar", <<GitSource(2)>>, TRUE, Some(10)),
                     Node("repo", "foo", <<>>, TRUE, None)>>)
DocNoEmail == Doc(<<Node("repo", "foo", <<GitSource(1)>>, FALSE, None)>>)
Bodies == {DocMalformed, DocOne, DocTwo, DocNoSource, DocNoEmail}

\* The response headers that carry a time, last-modified and date: both,
\* the date alone, or neither.
Headers == {[last_modified |-> Some(2), date |-> Some(1)],
            [last_modified |-> None, date |-> Some(1)],
            [last_modified |-> None, date |-> None]}

\* db.py:325-330: the timestamp captured from a response.
Timestamp(h) ==
    IF h.last_modified # None THEN h.last_modified
    ELSE IF h.date # None THEN h.date
    ELSE None

\* What the environment does in one iteration: whether an existing content
\* file is writable, the answer to the request, whether a missing cache
\* directory can be created, and where the commit meets an I/O error.
Answers == {"ok", "not_modified", "http_error", "io_error"}
CommitOutcomes == {"ok", "content_open_fails", "sidecar_open_fails"}

NoStep == [url |-> 0, kind |-> "none", since |-> None, body |-> None,
           headers |-> None, io |-> "none", writable |-> TRUE,
           requested |-> FALSE]

\* Mutant: check_path accepts every path.
CheckPath_AlwaysOk(exists, writable) == TRUE

\* RemoteDB.check_path([mpath]): refused when the file exists and cannot be
\* written.
CheckPath(exists, writable) == ~(exists /\ ~writable)

\* check_path refuses the content file: the URL is skipped.
Skipped(same, step) == same @@ [step |-> [step EXCEPT !.kind = "skipped"]]

\* Mutant: an answer of 'not modified' is counted as an update.
Caught_CountsUpdate(same, step, answer) ==
    [same EXCEPT !.has_updates = (answer = "not_modified") \/ @]
    @@ [step |-> [step EXCEPT !.kind = answer]]

\* Mutant: the IOError of the request is not caught.
Caught_IOErrorFatal(same, step, answer) ==
    [same EXCEPT !.raised = (answer = "io_error")]
    @@ [step |-> [step EXCEPT !.kind = answer]]

\* The two except clauses of the request: HTTPError (304 or another code)
\* and IOError; both go on with the next URL.
Caught(same, step, answer) == same @@ [step |-> [step EXCEPT !.kind = answer]]

\* os.makedirs fails: the wrapped OSError leaves the loop.
MkdirFailure(same, got) ==
    [same EXCEPT !.raised = TRUE]
    @@ [step |-> [got EXCEPT !.kind = "mkdir_fails"]]

\* Mutant: the content file is overwritten before the body is validated.
ParseFailure_AfterWrite(parsed, got, u, body) ==
    [parsed EXCEPT !.raised = TRUE, !.mcache[u] = Some(body)]
    @@ [step |-> [got EXCEPT !.kind = "parse_fails"]]

\* self.read raised on the fetched body: the wrapped IOError leaves the loop.
\* parsed holds the files as they were and the mapping as read left it.
ParseFailure(parsed, got, u, body) ==
    [parsed EXCEPT !.raised = TRUE]
    @@ [step |-> [got EXCEPT !.kind = "parse_fails"]]

\* Mutant: the sidecar is rewritten whether or not a timestamp was captured.
Commit_StampAlways(parsed, got, u, body, ts, io) ==
    IF io = "content_open_fails"
    THEN [parsed EXCEPT !.raised = TRUE]
         @@ [step |-> [got EXCEPT !.kind = "commit_fails", !.io = io]]
    ELSE
    LET content == [parsed EXCEPT !.mcache[u] = Some(body)] IN
    IF io = "sidecar_open_fails"
    THEN [content EXCEPT !.raised = TRUE]
         @@ [step |-> [got EXCEPT !.kind = "commit_fails", !.io = io]]
    ELSE [content EXCEPT !.tcache[u] = ts, !.has_updates = TRUE]
         @@ [step |-> [got EXCEPT !.kind = "committed", !.io = "ok"]]

\* "Ok, now we can overwrite the old cache": the content file, then the
\* sidecar when a timestamp was captured, then has_updates = True; an I/O
\* error anywhere is wrapped and leaves the loop.
Commit(parsed, got, u, body, ts, io) ==
    IF io = "content_open_fails"
    THEN [parsed EXCEPT !.raised = TRUE]
         @@ [step |-> [got EXCEPT !.kind = "commit_fails", !.io = io]]
    ELSE
    LET content == [parsed EXCEPT !.mcache[u] = Some(body)] IN
    IF ts # None /\ io = "sidecar_open_fails"
    THEN [content EXCEPT !.raised = TRUE]
         @@ [step |-> [got EXCEPT !.kind = "commit_fails", !.io = io]]
    ELSE [content EXCEPT !.tcache[u] = IF ts # None THEN ts ELSE @,
                         !.has_updates = TRUE]
         @@ [step |-> [got EXCEPT !.kind = "committed", !.io = "ok"]]

\* One iteration of the loop of RemoteDB.cache, for the URL at index u.
\* kind tells how the iteration ended; since is the sidecar as the iteration
\* found it, the If-Modified-Since header of the request; requested tells
\* whether opener.open was called.
CacheUrl(u, ovls, mc, tc, dir, upd, ignore, writable, answer, body, hdrs, mkdir, io) ==
    LET same == [overlays |-> ovls, mcache |-> mc, tcache |-> tc,
                 cacheDir |-> dir, has_updates |-> upd, raised |-> FALSE]
        step == [NoStep EXCEPT !.url = u, !.since = tc[u],
                               !.writable = writable]
        asked == [step EXCEPT !.requested = TRUE]
        got == [asked EXCEPT !.body = Some(body), !.headers = Some(hdrs)]
    IN
    IF ~CheckPath(mc[u] # None, writable) THEN Skipped(same, step)
    ELSE IF answer # "ok" THEN Caught(same, asked, answer)
    ELSE IF ~dir /\ ~mkdir THEN MkdirFailure(same, got)
    ELSE
    LET r == Read(ovls, body, ignore)
        parsed == [same EXCEPT !.cacheDir = TRUE, !.overlays = r.overlays]
    IN
    IF r.raised THEN ParseFailure(parsed, got, u, body)
    ELSE Commit(parsed, got, u, body, Timestamp(hdrs), io)

\* RemoteDB.__init__ with no cached file yet: an empty mapping.
InitRemote ==
    /\ rignore \in {0, 2}
    /\ roverlays = EmptyMap
    /\ mcache = [u \in 1..Len(Urls) |-> None]
    /\ tcache = [u \in 1..Len(Urls) |-> None]
    /\ cacheDir \in BOOLEAN
    /\ cpc = "idle"
    /\ pos = 0
    /\ has_updates = FALSE
    /\ kinds = <<>>
    /\ clast = NoStep

\* Mutant: has_updates is not reset when cache() is entered.
CacheStart_KeepsFlag ==
    /\ cpc # "running"
    /\ cpc' = "running"
    /\ pos' = 1
    /\ kinds' = <<>>
    /\ clast' = NoStep
    /\ UNCHANGED <<rignore, roverlays, mcache, tcache, cacheDir, has_updates>>

\* cache() is entered: has_updates = False, the loop is at the first URL.
CacheStart ==
    /\ cpc # "running"
    /\ cpc' = "running"
    /\ pos' = 1
    /\ has_updates' = FALSE
    /\ kinds' = <<>>
    /\ clast' = NoStep
    /\ UNCHANGED <<rignore, roverlays, mcache, tcache, cacheDir>>

\* Mutant: a URL whose request failed is requested again.
Advance_RetryOnError(p, kind) ==
    IF kind \in {"http_error", "io_error"} THEN p ELSE p + 1

\* for url in self.urls: whatever the iteration did, the loop goes on with
\* the next URL.
Advance(p, kind) == p + 1

\* One iteration of the loop; an uncaught exception ends the call.
CacheStep ==
    /\ cpc = "running"
    /\ pos <= Len(Urls)
    /\ \E writable \in (IF mcache[pos] # None THEN BOOLEAN ELSE {TRUE}) :
       \E answer \in (IF ~writable THEN {"ok"}
                      ELSE IF tcache[pos] # None THEN Answers
                      ELSE Answers \ {"not_modified"}) :
       LET fetched == writable /\ answer = "ok" IN
       \E body \in (IF fetched THEN Bodies ELSE {DocMalformed}),
          hdrs \in (IF fetched THEN Headers
                    ELSE {[last_modified |-> None, date |-> None]}),
          mkdir \in (IF fetched /\ ~cacheDir THEN BOOLEAN ELSE {TRUE}) :
       LET valid == fetched /\ (cacheDir \/ mkdir)
                            /\ ~Read(roverlays, body, rignore).raised
       IN
       \E io \in (IF ~valid THEN {"ok"}
                  ELSE IF Timestamp(hdrs) = None
                       THEN CommitOutcomes \ {"sidecar_open_fails"}
                       ELSE CommitOutcomes) :
       LET r == CacheUrl(pos, roverlays, mcache, tcache, cacheDir,
                         has_updates, rignore, writable, answer, body, hdrs,
                         mkdir, io)
       IN /\ roverlays' = r.overlays
          /\ mcache' = r.mcache
          /\ tcache' = r.tcache
          /\ cacheDir' = r.cacheDir
          /\ has_updates' = r.has_updates
          /\ clast' = r.step
          /\ kinds' = Append(kinds, r.step.kind)
          /\ cpc' = IF r.raised THEN "raised" ELSE "running"
          /\ pos' = IF r.raised THEN pos ELSE Advance(pos, r.step.kind)
          /\ UNCHANGED rignore

\* The loop is over: cache() returns has_updates.
CacheReturn ==
    /\ cpc = "running"
    /\ pos > Len(Urls)
    /\ cpc' = "returned"
    /\ UNCHANGED <<rignore, roverlays, mcache, tcache, cacheDir, pos,
                   has_updates, kinds, clast>>

\* ------------------------------------------------- loading a list of paths

\* Mutant: a name an earlier path defined is not overwritten.
RECURSIVE LoadPaths_FirstWins(_, _, _, _, _)
LoadPaths_FirstWins(files, i, ovls, ignore, found) ==
    IF i > Len(files)
    THEN [raised |-> FALSE, overlays |-> ovls, found |-> found]
    ELSE IF files[i] = None
         THEN LoadPaths_FirstWins(files, i + 1, ovls, ignore, found)
         ELSE LET r == Read(EmptyMap, files[i][1], ignore) IN
              IF r.raised
              THEN [raised |-> TRUE, overlays |-> ovls, found |-> found]
              ELSE LoadPaths_FirstWins(files, i + 1,
                       [n \in DOMAIN ovls \cup DOMAIN r.overlays |->
                           IF n \in DOMAIN ovls THEN ovls[n]
                           ELSE r.overlays[n]],
                       ignore, TRUE)

\* DbBase.__init__, the loop over self.paths from path i on: a path that
\* does not exist is skipped, the document of one that exists is read into
\* the mapping; files[i] is the document at path i, None when the path does
\* not exist.  found is path_found.
RECURSIVE LoadPaths(_, _, _, _, _)
LoadPaths(files, i, ovls, ignore, found) ==
    IF i > Len(files)
    THEN [raised |-> FALSE, overlays |-> ovls, found |-> found]
    ELSE IF files[i] = None
         THEN LoadPaths(files, i + 1, ovls, ignore, found)
         ELSE LET r == Read(ovls, files[i][1], ignore) IN
              IF r.raised
              THEN [raised |-> TRUE, overlays |-> r.overlays, found |-> found]
              ELSE LoadPaths(files, i + 1, r.overlays, ignore, TRUE)

\* RemoteDB.__init__ / DbBase.__init__ on the cache files as they are: the
\* mapping starts empty, the paths are loaded in the order of the URLs, and
\* a warning is emitted when no path was found.
Construct ==
    /\ cpc = "idle"
    /\ LET r == LoadPaths(mcache, 1, EmptyMap, rignore, FALSE) IN
       /\ roverlays' = r.overlays
       /\ cpc' = IF r.raised THEN "load_raised" ELSE "loaded"
       /\ clast' = [NoStep EXCEPT !.kind = IF r.raised THEN "load_raised"
                                           ELSE IF r.found THEN "loaded"
                                           ELSE "loaded, warned"]
    /\ UNCHANGED <<rignore, mcache, tcache, cacheDir, pos, has_updates,
                   kinds>>

\* The cache files a RemoteDB can be constructed on: for each URL no file,
\* or a file holding any of the bodies.
InitLoad ==
    /\ rignore \in {0, 2}
    /\ roverlays = EmptyMap
    /\ mcache \in [1..Len(Urls) -> {None} \cup {Some(b) : b \in Bodies}]
    /\ tcache = [u \in 1..Len(Urls) |-> None]
    /\ cacheDir = TRUE
    /\ cpc = "idle"
    /\ pos = 0
    /\ has_updates = FALSE
    /\ kinds = <<>>
    /\ clast = NoStep

\* ------------------------------------------- equality and the round trip

\* Overlay.__eq__: the compared fields are equal and each source of either
\* entity is among the sources of the other.  (homepage and status are
\* carried unchanged by every operation of the model and are left out.)
OverlayEq(a, b) ==
    /\ a.description = b.description
    /\ a.name = b.name
    /\ a.owner_email = b.owner_email
    /\ a.owner_name = b.owner_name
    /\ a.priority = b.priority
    /\ {a.sources[i] : i \in 1..Len(a.sources)}
         = {b.sources[i] : i \in 1..Len(b.sources)}

\* Mutant: a name one of the stores lacks makes the stores unequal.
RECURSIVE StoreEq_MissingIsUnequal(_, _, _, _)
StoreEq_MissingIsUnequal(a, b, order, i) ==
    IF i > Len(order) THEN "True"
    ELSE IF order[i] \notin DOMAIN a \/ order[i] \notin DOMAIN b THEN "False"
    ELSE IF ~OverlayEq(a[order[i]], b[order[i]]) THEN "False"
    ELSE StoreEq_MissingIsUnequal(a, b, order, i + 1)

\* DbBase.__eq__, the loop from the i-th key on.  order is the order in
\* which the set of the keys of both stores is iterated, which the
\* language leaves open.
RECURSIVE StoreEq(_, _, _, _)
StoreEq(a, b, order, i) ==
    IF i > Len(order) THEN "True"
    ELSE IF order[i] \notin DOMAIN a \/ order[i] \notin DOMAIN b
         THEN "KeyError"
    ELSE IF ~OverlayEq(a[order[i]], b[order[i]]) THEN "False"
    ELSE StoreEq(a, b, order, i + 1)

\* DbBase.__ne__: not self.__eq__(other); the KeyError passes through.
StoreNe(a, b, order) ==
    LET eq == StoreEq(a, b, order, 1) IN
    IF eq = "True" THEN "False" ELSE IF eq = "False" THEN "True" ELSE eq

\* The orders in which a set of keys can be iterated.
Orders(S) ==
    {o \in [1..Cardinality(S) -> S] : \A k \in S : \E i \in DOMAIN o : o[i] = k}

\* The element DbBase.write puts into the file for a node of to_xml, as
\* ET.fromstring gives it back: a 'repo' element with the name, the typed
\* sources, the priority attribute, the description and the owner's email
\* element; an element whose text was None or empty comes back without
\* text.
Serialised(x) ==
    LET Text(t) == IF t = None \/ t = Some("") THEN None ELSE t IN
    [tag |-> "repo", name |-> Some(x.name),
     sources |-> [i \in 1..Len(x.sources) |-> GitSource(x.sources[i])],
     email |-> TRUE, email_text |-> Text(x.owner_email),
     owner_name |-> x.owner_name # None,
     desc |-> TRUE, desc_text |-> Text(Some(x.description)),
     priority |-> Some(x.priority)]

\* The document DbBase.write produces for a mapping.
RECURSIVE WrittenNodes(_, _)
WrittenNodes(ovls, keys) ==
    IF keys = {} THEN <<>>
    ELSE LET k == CHOOSE x \in keys : TRUE IN
         <<Serialised(ToXml(ovls[k]))>> \o WrittenNodes(ovls, keys \ {k})
WrittenDoc(ovls) == Doc(WrittenNodes(ovls, DOMAIN ovls))

\* The ignore levels a store can be constructed with.
IgnoreLevels == {0, 1, 2}

\* ------------------------------------------- the two construction paths

\* The field values of an overlay definition: an optional name, the
\* sources (location and type, possibly none), whether there is an owner
\* name, an owner email and a description, and an optional priority.
DefinitionSources ==
    {<<>>, <<DictSource(1, "git")>>, <<DictSource(1, "carrier pigeon")>>,
     <<DictSource(2, "svn"), DictSource(1, "git")>>}
Definitions ==
    [name : {None, Some("foo")}, sources : DefinitionSources,
     owner_name : BOOLEAN, email : BOOLEAN, desc : BOOLEAN,
     priority : {None, Some(0), Some(10)}]

\* The definition as a document node: a name element, one source element
\* per source, an owner element with the email and name elements it has, a
\* description element, a priority attribute.
AsNode(def) ==
    [tag |-> "repo", name |-> def.name,
     sources |-> [i \in 1..Len(def.sources) |->
                     [type |-> Some(def.sources[i].type),
                      src |-> def.sources[i].src]],
     email |-> def.email, email_text |-> Some("e"),
     owner_name |-> def.owner_name,
     desc |-> def.desc, desc_text |-> Some("d"), priority |-> def.priority]

\* The definition as a plain mapping: every key present, None for a field
\* the definition lacks.
AsDict(def) ==
    [name |-> def.name, sources |-> Some(def.sources),
     owner |-> def.owner_name, email |-> def.email, desc |-> def.desc,
     priority |-> def.priority]

\* Overlay(config, xml = ...) and Overlay(config, ovl_dict = ...) on the same
\* definition at the same ignore level.
ConstructBoth ==
    \E def \in Definitions, ignore \in IgnoreLevels :
        LET x == FromXml(AsNode(def), ignore)
            d == FromDict(AsDict(def), ignore)
        IN /\ last' = [NoCall EXCEPT
                          !.op = "construct", !.arg = Some(def),
                          !.res = ignore,
                          !.after = x.entity, !.other = d.entity,
                          !.ret = IF x.raised THEN "raise" ELSE "entity",
                          !.msg = IF d.raised THEN "raise" ELSE "entity"]
           /\ UNCHANGED <<config, overlays, localFile, entity>>

\* DbBase.read called on an empty store with a document of one node, the
\* definition.
ReadOne ==
    /\ overlays = EmptyMap
    /\ \E def \in Definitions, ignore \in IgnoreLevels :
        LET x == FromXml(AsNode(def), ignore)
            r == Read(overlays, Doc(<<AsNode(def)>>), ignore)
        IN /\ overlays' = r.overlays
           /\ last' = [NoCall EXCEPT
                          !.op = "read one", !.arg = Some(def),
                          !.res = ignore, !.after = x.entity,
                          !.warned = x.warned,
                          !.ret = IF r.raised THEN "raise" ELSE "None"]
           /\ UNCHANGED <<config, localFile, entity>>

\* ------------------------------------------------------ the git backend

\* A source location: its protocol and whether it ends with a slash.
GitLocations == [scheme : {"http", "git"}, slash : BOOLEAN]

\* fix_git_source: an http:// location gets a trailing slash, any other
\* location is left alone.
FixGitSource(source) ==
    IF source.scheme = "http" THEN [source EXCEPT !.slash = TRUE] ELSE source

\* A command line handed to run_command, and the directory it runs in.
GitCommand(args, quiet, opts, branch, src, cwd) ==
    [args |-> args, quiet |-> quiet, opts |-> opts, branch |-> branch,
     src |-> src, cwd |-> cwd]

\* git clone [-q] [git_addopts] [-b branch] SOURCE TARGET, run in base.
CloneCommand(in) ==
    GitCommand("clone", in.quiet, in.opts, in.branch,
               Some(FixGitSource(in.src)), "base")

\* git config user.name / user.email, run in the target directory.
ConfigCommand(key) == GitCommand(key, FALSE, None, None, None, "target")

\* GitOverlay.set_user(target).  uname, uemail: what run_command does for
\* the two commands.  The status of the first command is returned when it
\* is non-zero, that of the second otherwise.
SetUser(uname, uemail) ==
    LET first == <<ConfigCommand("config user.name")>> IN
    IF uname.raised THEN [raised |-> TRUE, status |-> 1, commands |-> first]
    ELSE IF uname.status # 0
    THEN [raised |-> FALSE, status |-> uname.status, commands |-> first]
    ELSE [raised |-> uemail.raised, status |-> uemail.status,
          commands |-> Append(first, ConfigCommand("config user.email"))]

\* OverlaySource.postsync(success, cwd = target): a status that is non-zero
\* is handed back, otherwise the answer post of the post-sync step.
Postsync(status, post) == IF status # 0 THEN status ELSE post

\* GitOverlay.add(base).  in: the configuration, the source and the answers
\* of supported() and of the post-sync step; clone, uname, uemail: what
\* run_command does for the three commands.  The status of the clone is
\* assigned to success and overwritten by that of set_user.
GitAdd(in, clone, uname, uemail) ==
    IF ~in.supported
    THEN [raised |-> FALSE, status |-> 1, commands |-> <<>>]
    ELSE
    LET cloned == <<CloneCommand(in)>> IN
    IF clone.raised
    THEN [raised |-> TRUE, status |-> 1, commands |-> cloned]
    ELSE
    LET u == SetUser(uname, uemail) IN
    IF u.raised
    THEN [raised |-> TRUE, status |-> 1, commands |-> cloned \o u.commands]
    ELSE [raised |-> FALSE, status |-> Postsync(u.status, in.post),
          commands |-> cloned \o u.commands]

\* What an add is called with: config['quiet'], config['git_addopts'], the
\* branch of the parent, the location, whether git is supported and the
\* answer of the post-sync step.
GitInputs ==
    [quiet : BOOLEAN, opts : {None, Some("opts")},
     branch : {None, Some("b")}, src : GitLocations, supported : BOOLEAN,
     post : {0, 1}]

\* The commands whose outcome is drawn: those the call runs.  A command the
\* call does not reach is given the fixed outcome Raised, and the post-sync
\* answer of a call that does not reach a post-sync step is 0.
GitReached(in, clone, uname, uemail) ==
    /\ ~in.supported =>
          /\ clone = Raised
          /\ in.src = [scheme |-> "git", slash |-> FALSE]
          /\ ~in.quiet /\ in.opts = None /\ in.branch = None
    /\ clone.raised => uname = Raised
    /\ (uname.raised \/ uname.status # 0) => uemail = Raised
    /\ ~(~uname.raised /\ uname.status = 0
            /\ ~uemail.raised /\ uemail.status = 0) => in.post = 0

\* GitOverlay.add(base) called on a source.
GitAddCall ==
    \E in \in GitInputs, clone, uname, uemail \in Outcomes :
        /\ GitReached(in, clone, uname, uemail)
        /\ LET r == GitAdd(in, clone, uname, uemail) IN
           last' = [NoCall EXCEPT
                       !.op = "git.add", !.arg = Some(in),
                       !.out = <<clone, uname, uemail>>,
                       !.steps = r.commands, !.res = r.status,
                       !.ret = IF r.raised THEN "raise" ELSE "status"]
        /\ UNCHANGED <<config, overlays, localFile, entity>>

\* ----------------------------------------------- the registry as a store

\* DB.__init__ sets self.ignore to 1, or to 2 under config['nocheck'].
DBIgnore == {1, 2}

\* The documents of two nodes, each with either tag spelling, one of two
\* names and one of two source locations.
Tags == {"overlay", "repo"}
TaggedNodes ==
    {Node(t, n, <<GitSource(l)>>, TRUE, None)
        : t \in Tags, n \in {"foo", "bar"}, l \in {1, 2}}
TwoNodeDocs == {Doc(<<a, b>>) : a, b \in TaggedNodes}

\* DbBase.read called on an empty store with a document of two nodes.
ReadDoc ==
    /\ overlays = EmptyMap
    /\ \E doc \in TwoNodeDocs, ignore \in DBIgnore :
        LET r == Read(overlays, doc, ignore) IN
        /\ overlays' = r.overlays
        /\ last' = [NoCall EXCEPT
                       !.op = "read doc", !.arg = Some(doc), !.res = ignore,
                       !.ret = IF r.raised THEN "raise" ELSE "None"]
        /\ UNCHANGED <<config, localFile, entity>>

\* DbBase.read(text, origin) called on the registry.
StoreRead ==
    \E doc \in Bodies, ignore \in DBIgnore :
        LET r == Read(overlays, doc, ignore) IN
        /\ overlays' = r.overlays
        /\ last' = [NoCall EXCEPT !.op = "read",
                                  !.ret = IF r.raised THEN "raise" ELSE "None"]
        /\ UNCHANGED <<config, localFile, entity>>

\* DbBase.add_new(from_dict = ...) called on the registry.
StoreAddFromDict ==
    \E dicts \in DictLists, ignore \in DBIgnore :
        LET r == AddFromDict(overlays, dicts, 1, ignore) IN
        /\ overlays' = r.overlays
        /\ last' = [NoCall EXCEPT !.op = "add_from_dict",
                                  !.ret = IF r.raised THEN "raise" ELSE "None"]
        /\ UNCHANGED <<config, localFile, entity>>

\* The store is written to a file, the file is loaded into a fresh store,
\* and the two are compared (the doctest of DbBase.write).
StoreReload ==
    \E ignore \in IgnoreLevels :
        LET r == Read(EmptyMap, WrittenDoc(overlays), ignore) IN
        \E order \in Orders(DOMAIN overlays \cup DOMAIN r.overlays) :
        /\ last' = [NoCall EXCEPT
                       !.op = "reload",
                       !.other = Some(r.overlays),
                       !.order = order,
                       !.ret = IF r.raised THEN "raise"
                               ELSE StoreEq(overlays, r.overlays, order, 1)]
        /\ UNCHANGED <<config, overlays, localFile, entity>>

\* The store is compared with a store loaded from one document.
StoreCompare ==
    \E doc \in Bodies, ignore \in DBIgnore :
        LET r == Read(EmptyMap, doc, ignore) IN
        /\ ~r.raised
        /\ \E order \in Orders(DOMAIN overlays \cup DOMAIN r.overlays) :
            /\ last' = [NoCall EXCEPT
                           !.op = "compare",
                           !.other = Some(r.overlays),
                           !.order = order,
                           !.ret = StoreEq(overlays, r.overlays, order, 1),
                           !.msg = StoreNe(overlays, r.overlays, order)]
            /\ UNCHANGED <<config, overlays, localFile, entity>>

\* DbBase.select(name) called on the registry.
StoreSelect ==
    \E name \in Names :
        LET r == Select(overlays, name) IN
        /\ last' = [NoCall EXCEPT !.op = "select", !.msg = name,
                                  !.arg = r.entity, !.after = r.entity,
                                  !.ret = IF r.raised THEN "raise"
                                          ELSE "entity",
                                  !.exc = IF r.raised THEN "unknown overlay"
                                          ELSE "none"]
        /\ UNCHANGED <<config, overlays, localFile, entity>>

\* ------------------------------------------------------- the specifications

vars == <<dbVars, cacheVars>>

\* The components a specification does not drive stay as constructed.
RegistryIdle ==
    /\ config = [has_priority |-> FALSE, priority |-> DefaultPriority,
                 make_conf |-> FALSE]
    /\ overlays = EmptyMap
    /\ localFile = {}

CacheIdle ==
    /\ InitRemote
    /\ rignore = 0
    /\ ~cacheDir

\* The local registry.
Init == InitDB /\ entity = None /\ CacheIdle

Next ==
    \/ DBAdd /\ UNCHANGED cacheVars
    \/ DBDelete /\ UNCHANGED cacheVars
    \/ DBSync /\ UNCHANGED cacheVars

Spec == Init /\ [][Next]_vars

\* The registry as a catalog store: read, add_new, select, DB.add, DB.delete.
InitS == RegistryIdle /\ last = NoCall /\ entity = None /\ CacheIdle

NextS ==
    \/ StoreRead /\ UNCHANGED cacheVars
    \/ StoreAddFromDict /\ UNCHANGED cacheVars
    \/ StoreSelect /\ UNCHANGED cacheVars
    \/ DBAdd /\ UNCHANGED cacheVars
    \/ DBDelete /\ UNCHANGED cacheVars

SpecStore == InitS /\ [][NextS]_vars

\* Stores filled by read and add_new, written and reloaded, and compared.
NextE ==
    \/ StoreRead /\ UNCHANGED cacheVars
    \/ StoreAddFromDict /\ UNCHANGED cacheVars
    \/ StoreReload /\ UNCHANGED cacheVars
    \/ StoreCompare /\ UNCHANGED cacheVars

SpecEq == InitS /\ [][NextE]_vars

\* The construction of a store on a list of paths.
InitL == InitLoad /\ RegistryIdle /\ last = NoCall /\ entity = None

NextL == Construct /\ UNCHANGED dbVars

SpecLoad == InitL /\ [][NextL]_vars

\* The construction of one entity along both paths.
NextEnt == ConstructBoth /\ UNCHANGED cacheVars

SpecEntity == InitS /\ [][NextEnt]_vars

\* The reading of a document of one node into an empty store.
NextRead == ReadOne /\ UNCHANGED cacheVars

SpecRead == InitS /\ [][NextRead]_vars

\* The reading of a document of two nodes into an empty store.
NextDoc == ReadDoc /\ UNCHANGED cacheVars

SpecDoc == InitS /\ [][NextDoc]_vars

\* GitOverlay.add on one source.
NextGit == GitAddCall /\ UNCHANGED cacheVars

SpecGit == InitS /\ [][NextGit]_vars

\* Overlay.add on one entity.
InitO == InitOverlay /\ RegistryIdle /\ CacheIdle

NextO == OverlayAddCall /\ UNCHANGED cacheVars

SpecOverlay == InitO /\ [][NextO]_vars

\* The remote catalog cache.
InitC == InitRemote /\ RegistryIdle /\ last = NoCall /\ entity = None

NextC ==
    \/ CacheStart /\ UNCHANGED dbVars
    \/ CacheStep /\ UNCHANGED dbVars
    \/ CacheReturn /\ UNCHANGED dbVars

SpecCache == InitC /\ [][NextC]_vars

\* One invocation at a time: a RemoteDB.cache call, or DB.add and DB.sync
\* calls.  The two objects share no state, so each is run with the other at
\* rest.
InitOnce == InitRemote /\ RegistryIdle /\ last = NoCall /\ entity = None

NextOnce ==
    \/ last = NoCall /\ CacheStart /\ UNCHANGED dbVars
    \/ last = NoCall /\ CacheStep /\ UNCHANGED dbVars
    \/ last = NoCall /\ CacheReturn /\ UNCHANGED dbVars
    \/ CacheIdle /\ DBAdd /\ UNCHANGED cacheVars
    \/ CacheIdle /\ DBSync /\ UNCHANGED cacheVars

SpecOnce == InitOnce /\ [][NextOnce]_vars

\* ------------------------------------------------------------- properties

\* The outcome of candidate i was a returned status of 0.
Succeeded(out, i) == ~out[i].raised /\ out[i].status = 0
FirstSuccess(out, k) ==
    Succeeded(out, k) /\ \A j \in 1..(k - 1) : ~Succeeded(out, j)
UpTo(k) == [i \in 1..k |-> i]

\* C1 (SpecOverlay).  Overlay.add attempts the candidates in declared order
\* and one at a time; at the first candidate whose add returns 0 it stops,
\* the entity's source list becomes exactly that candidate, and it returns 0.
C1_FirstSuccessWins ==
    last.op = "overlay.add" =>
        LET before == last.arg[1].sources
            out == last.out
        IN /\ last.tried = UpTo(Len(last.tried))
           /\ \A k \in 1..Len(out) :
                 FirstSuccess(out, k) =>
                     /\ last.tried = UpTo(k)
                     /\ entity[1].sources = <<before[k]>>
                     /\ last.res = 0

\* Sources [1, 2]: the add of 1 fails, the add of 2 succeeds, [2] is left.
C1_Witness ==
    /\ last.op = "overlay.add"
    /\ last.arg[1].sources = <<1, 2>>
    /\ last.out = <<Returned(1), Returned(0)>>
    /\ last.res = 0
    /\ entity[1].sources = <<2>>

\* C3 (Spec).  DB.add of a name the registry already holds returns False
\* and changes nothing: the mapping, the persisted file, no notification to
\* the external config, no candidate attempted, no write, the passed entity
\* as it was.
C3_DuplicateAddChangesNothing ==
    [][(last'.op = "add" /\ last'.arg[1].name \in DOMAIN overlays) =>
           /\ last'.ret = "False"
           /\ overlays' = overlays
           /\ localFile' = localFile
           /\ last'.notified = "none"
           /\ last'.wrote = "none"
           /\ last'.tried = <<>>
           /\ last'.after = last'.arg]_vars

\* A duplicate add of an entity that still has two candidates was refused.
C3_Witness ==
    /\ last.op = "add"
    /\ last.msg = "already in the local list"
    /\ last.ret = "False"
    /\ last.arg[1].name \in DOMAIN overlays
    /\ Len(last.arg[1].sources) = 2

\* C4 (Spec).  Between calls the names of the mapping are the names of the
\* persisted local file, also after calls that raised on a write error.
C4_MappingMatchesFile ==
    DOMAIN overlays = {n.name : n \in localFile}

\* C5 (Spec).  From an empty registry, every entity of the mapping has
\* exactly one source, and the assertion of Overlay.sync never fails for an
\* entity selected from the registry.
C5_RegistryEntitiesHaveOneSource ==
    /\ \A n \in DOMAIN overlays : Len(overlays[n].sources) = 1
    /\ last.op = "sync" => last.exc # "assert"

\* An entity defined with two candidates is in the registry with one.
C5_Witness ==
    /\ last.op = "add"
    /\ last.ret = "True"
    /\ Len(last.arg[1].sources) = 2
    /\ last.arg[1].name \in DOMAIN overlays
    /\ Len(overlays[last.arg[1].name].sources) = 1

\* C6 (SpecOverlay).  When every candidate's add returns a non-zero status,
\* Overlay.add attempts every candidate and returns the status of the last.
C6_AllFailReturnsLastStatus ==
    last.op = "overlay.add" =>
        LET out == last.out IN
        (Len(out) > 0
            /\ \A i \in 1..Len(out) : ~out[i].raised /\ out[i].status # 0) =>
            /\ last.tried = UpTo(Len(out))
            /\ last.res = out[Len(out)].status
            /\ entity = last.arg

\* Two candidates fail with statuses 2 and 1: the call returns 1.
C6_Witness ==
    /\ last.op = "overlay.add"
    /\ last.out = <<Returned(2), Returned(1)>>
    /\ last.tried = <<1, 2>>
    /\ last.res = 1

\* An iteration of the loop of RemoteDB.cache is about to run.
StepTaken == cpc = "running" /\ pos <= Len(Urls)
FatalKinds == {"mkdir_fails", "parse_fails", "commit_fails"}

\* C2 (SpecCache).  When the fetched body of a URL cannot be parsed, the
\* call raises and the content file and the sidecar of that URL are as they
\* were; no iteration touches the files of another URL.
C2_ValidateBeforeWrite ==
    [][StepTaken =>
          /\ clast'.kind = "parse_fails" =>
                /\ cpc' = "raised"
                /\ mcache'[pos] = mcache[pos]
                /\ tcache'[pos] = tcache[pos]
          /\ \A v \in (1..Len(Urls)) \ {pos} :
                mcache'[v] = mcache[v] /\ tcache'[v] = tcache[v]]_vars

\* An unparsable body arrived for a URL that has a cached content file and
\* a sidecar.
C2_Witness ==
    /\ cpc = "raised"
    /\ clast.kind = "parse_fails"
    /\ mcache[clast.url] # None
    /\ tcache[clast.url] # None
    /\ mcache[clast.url] # clast.body

\* C7 (SpecCache).  An answer of 'not modified' to the conditional request
\* writes neither file and does not count as an update; a call in which
\* every URL is answered so returns False.
C7_NotModifiedWritesNothing ==
    /\ [][(StepTaken /\ clast'.kind = "not_modified") =>
             /\ clast'.since # None
             /\ mcache' = mcache
             /\ tcache' = tcache
             /\ has_updates' = has_updates
             /\ cpc' = "running"]_vars
    /\ []((cpc = "returned"
              /\ \A i \in 1..Len(kinds) : kinds[i] = "not_modified")
          => ~has_updates)

\* Both URLs were answered 'not modified' and the call returned False.
C7_Witness ==
    /\ cpc = "returned"
    /\ kinds = <<"not_modified", "not_modified">>
    /\ ~has_updates

\* C8 as claimed (SpecCache).  A commit leaves the content file with the
\* body and the sidecar with the timestamp of the same response.
C8_SidecarBelongsToContent ==
    clast.kind = "committed" =>
        /\ mcache[clast.url] = clast.body
        /\ tcache[clast.url] = Timestamp(clast.headers[1])

\* C8 as amended (SpecCache).  A commit overwrites the content file with the
\* body; it overwrites the sidecar with the timestamp of the same response
\* when the response has a last-modified or a date header, and leaves the
\* sidecar as it was when the response has neither.
C8_SidecarWrittenWhenStamped ==
    [][(StepTaken /\ clast'.kind = "committed") =>
          LET ts == Timestamp(clast'.headers[1]) IN
          /\ mcache'[pos] = clast'.body
          /\ ts # None => tcache'[pos] = ts
          /\ ts = None => tcache'[pos] = tcache[pos]
          /\ has_updates']_vars

\* A body without last-modified and date was committed next to the sidecar
\* of an older body.
C8_Witness ==
    /\ clast.kind = "committed"
    /\ Timestamp(clast.headers[1]) = None
    /\ mcache[clast.url] = clast.body
    /\ tcache[clast.url] # None

\* C9 (SpecCache).  The commit of one URL is atomic for the content file and
\* the sidecar: both hold the new body and its timestamp, or both are as
\* they were.
C9_CommitIsAtomic ==
    [][(StepTaken /\ clast'.kind \in {"committed", "commit_fails"}) =>
          \/ /\ mcache'[pos] = clast'.body
             /\ tcache'[pos] = Timestamp(clast'.headers[1])
          \/ /\ mcache'[pos] = mcache[pos]
             /\ tcache'[pos] = tcache[pos]]_vars

C11_ReturnsWhetherCommitted ==
    cpc = "returned" =>
        (has_updates <=> \E i \in 1..Len(kinds) : kinds[i] = "committed")

\* A later call commits nothing (a transport error, then 'not modified') and
\* returns False although an earlier call left cached files.
C11_Witness ==
    /\ cpc = "returned"
    /\ kinds = <<"http_error", "not_modified">>
    /\ mcache[2] # None
    /\ ~has_updates

\* C12 (SpecCache).  When the content file of a URL exists and is not
\* writable, the iteration sends no request, leaves every file, the mapping
\* and has_updates as they were, and the loop goes on with the next URL.
C12_UnwritableCacheIsSkipped ==
    [][(StepTaken /\ mcache[pos] # None /\ ~clast'.writable) =>
          /\ clast'.kind = "skipped"
          /\ ~clast'.requested
          /\ mcache' = mcache
          /\ tcache' = tcache
          /\ roverlays' = roverlays
          /\ has_updates' = has_updates
          /\ cpc' = "running"
          /\ pos' = pos + 1]_vars

\* The first URL was skipped for its unwritable content file, the second
\* was committed, and the call returned.
C12_Witness ==
    /\ cpc = "returned"
    /\ kinds = <<"skipped", "committed">>
    /\ mcache[1] # None
    /\ has_updates

\* The calls of s that are among names, in the order s has them.
Among(s, names) == SelectSeq(s, LAMBDA x : x \in names)

\* The entity DB.add stores for its argument: the one source that answered
\* 0 and the configured priority when there is one.
StoredBy(call) ==
    Entity(call.arg[1].name,
           <<call.arg[1].sources[call.tried[Len(call.tried)]]>>,
           IF config.has_priority THEN config.priority
           ELSE call.arg[1].priority)

\* C13 (Spec).  A DB.add of a new name whose Overlay.add returned 0 applies
\* the configured priority override, inserts the entity, persists the store
\* and notifies the external config, in this order; when the notification
\* is sent the persisted file holds the entity with the overridden priority
\* and its single remaining source.
C13_AddOrder ==
    (last.op = "add" /\ last.res = 0) =>
        /\ last.steps \in
              {Among(<<"overlay.add", "set_priority", "insert", "write",
                       "notify">>, keep \cup {"overlay.add", "insert", "write"})
                 : keep \in SUBSET {"set_priority", "notify"}}
        /\ ("set_priority" \in {last.steps[i] : i \in 1..Len(last.steps)})
              = config.has_priority
        /\ last.after = Some(StoredBy(last))
        /\ overlays[last.arg[1].name] = StoredBy(last)
        /\ last.notified = "add" =>
              /\ last.steps[Len(last.steps)] = "notify"
              /\ last.wrote = "ok"
              /\ ToXml(StoredBy(last)) \in localFile

\* An entity with two candidates was added under a priority override of 10
\* and the external config was notified.
C13_Witness ==
    /\ last.op = "add"
    /\ last.res = 0
    /\ Len(last.arg[1].sources) = 2
    /\ last.tried = <<1, 2>>
    /\ last.steps = <<"overlay.add", "set_priority", "insert", "write",
                      "notify">>
    /\ ToXml(Entity(last.arg[1].name, <<2>>, 10)) \in localFile

\* C14 (Spec).  When the external config's add fails after the source add
\* succeeded, DB.add returns that failure, False, and the overlay stays in
\* the mapping and in the persisted file.
C14_NoRollbackOnNotifyFailure ==
    (last.op = "add" /\ last.notified = "add" /\ ~last.make_ok) =>
        /\ last.res = 0
        /\ last.ret = "False"
        /\ last.arg[1].name \in DOMAIN overlays
        /\ overlays[last.arg[1].name] = StoredBy(last)
        /\ ToXml(StoredBy(last)) \in localFile

\* The external config refused the add of an overlay that is installed.
C14_Witness ==
    /\ last.op = "add"
    /\ last.notified = "add"
    /\ ~last.make_ok
    /\ last.ret = "False"
    /\ last.arg[1].name \in DOMAIN overlays
    /\ last.arg[1].name \in {n.name : n \in localFile}

\* C15 (Spec).  A DB.add of a new name whose Overlay.add returns a non-zero
\* status returns False; the mapping and the persisted file stay as they
\* were, no write is attempted, the external config is not notified and the
\* priority override is not applied to the entity.
C15_FailedAddChangesNothing ==
    [][(last'.op = "add" /\ last'.arg[1].name \notin DOMAIN overlays
            /\ last'.res # 0) =>
           /\ last'.ret = "False"
           /\ overlays' = overlays
           /\ localFile' = localFile
           /\ last'.wrote = "none"
           /\ last'.notified = "none"
           /\ last'.after = last'.arg
           /\ \A i \in 1..Len(last'.steps) :
                 last'.steps[i] \notin {"set_priority", "insert", "write",
                                        "notify"}]_vars

\* Under a priority override, both candidates of a new overlay returned a
\* non-zero status while another overlay was installed.
C15_Witness ==
    /\ last.op = "add"
    /\ last.tried = <<1, 2>>
    /\ last.res = 2
    /\ last.ret = "False"
    /\ config.has_priority
    /\ last.arg[1].name \notin DOMAIN overlays
    /\ overlays # EmptyMap

\* C16 (Spec).  After a failed add of a new name, DB.add first attempts the
\* removal of the empty working directory and then reports: the error that
\* names the path and says the remains were not removed exactly when the
\* directory still exists, the plain failure message exactly when it does
\* not.
C16_LeftoverIsReported ==
    (last.op = "add" /\ last.res \notin {0, -1}) =>
        /\ last.steps = <<"overlay.add", "delete_empty_directory", "error">>
        /\ last.mdir_exists => last.msg = "failed, remains left"
        /\ ~last.mdir_exists => last.msg = "failed"
        /\ last.ret = "False"

\* A failed add left its working directory behind and said so.
C16_Witness ==
    /\ last.op = "add"
    /\ last.res = 1
    /\ last.mdir_exists
    /\ last.msg = "failed, remains left"

DeleteSteps == <<"overlay.delete", "remove", "write", "notify">>

\* C17 (Spec).  DB.delete of a name the mapping does not hold returns False
\* and changes nothing: no backend call, no write, no notification.  For a
\* name the mapping holds it deletes the working tree, removes the name from
\* the mapping, persists the store and removes the overlay from the external
\* config, in this order; when it returns, it returns True and the name is
\* absent from the mapping and from the persisted file.
C17_DeleteOrder ==
    [][last'.op = "delete" =>
          LET name == last'.arg[1].name IN
          /\ name \notin DOMAIN overlays =>
                /\ last'.ret = "False"
                /\ overlays' = overlays
                /\ localFile' = localFile
                /\ last'.steps = <<>>
                /\ last'.backend = <<>>
                /\ last'.wrote = "none"
                /\ last'.notified = "none"
          /\ name \in DOMAIN overlays =>
                /\ last'.steps = SubSeq(DeleteSteps, 1, Len(last'.steps))
                /\ last'.ret \in {"True", "raise"}
                /\ last'.ret = "True" =>
                      /\ last'.steps = DeleteSteps
                      /\ last'.backend = <<last'.arg[1].sources[1]>>
                      /\ last'.notified = "delete"
                      /\ name \notin DOMAIN overlays'
                      /\ name \notin {n.name : n \in localFile'}]_vars

\* One of two installed overlays was deleted: the other one is still in
\* the mapping and in the file.
C17_Witness ==
    /\ last.op = "delete"
    /\ last.ret = "True"
    /\ last.steps = DeleteSteps
    /\ Cardinality(DOMAIN overlays) = 1
    /\ DOMAIN overlays = {n.name : n \in localFile}
    /\ last.arg[1].name \notin DOMAIN overlays

\* C18 (Spec).  Every DB.add and DB.delete that changes the set of names of
\* the mapping sends the matching notification to the external config,
\* whatever the configuration.
C18_NameChangeIsNotified ==
    [][(last'.op \in {"add", "delete"}
            /\ DOMAIN overlays' # DOMAIN overlays) =>
           last'.notified = last'.op]_vars

\* C19 (Spec).  DB.sync(name) raises the unknown-overlay exception when the
\* mapping has no such name; otherwise it calls the entity's sync, returns
\* normally on status 0 and raises an exception whose message carries the
\* status on any other status.  The mapping, the persisted file and the
\* external config are left as they were in every case.
C19_SyncReportsStatus ==
    [][last'.op = "sync" =>
          /\ overlays' = overlays
          /\ localFile' = localFile
          /\ last'.notified = "none"
          /\ last'.wrote = "none"
          /\ last'.msg \notin DOMAIN overlays =>
                /\ last'.ret = "raise"
                /\ last'.exc = "unknown overlay"
                /\ last'.steps = <<>>
          /\ last'.msg \in DOMAIN overlays =>
                /\ last'.steps = <<"overlay.sync">>
                /\ last'.backend = <<overlays[last'.msg].sources[1]>>
                /\ last'.res = 0 => last'.ret = "None" /\ last'.error = None
                /\ last'.res # 0 =>
                      /\ last'.ret = "raise"
                      /\ last'.exc = "sync status"
                      /\ last'.error # None
                      /\ last'.error[1].name = last'.msg
                      /\ last'.error[1].status = last'.res]_vars

\* The sync of an installed overlay returned status 2 and DB.sync raised.
C19_Witness ==
    /\ last.op = "sync"
    /\ last.msg \in DOMAIN overlays
    /\ last.res = 2
    /\ last.ret = "raise"
    /\ last.error = Some(SyncMessage(last.msg, 2))

\* C20 (SpecStore).  After any sequence of read, add_new from dictionaries,
\* DB.add and DB.delete, every key of the mapping is the name of the entity
\* it maps to; select(name) returns the entity stored under name, raises
\* the unknown-overlay exception when there is none, and leaves the mapping
\* as it was.
C20_KeysAreNames ==
    /\ [](\A k \in DOMAIN overlays : overlays[k].name = k)
    /\ [][last'.op = "select" =>
             /\ overlays' = overlays
             /\ localFile' = localFile
             /\ last'.msg \in DOMAIN overlays =>
                   /\ last'.ret = "entity"
                   /\ last'.arg = Some(overlays[last'.msg])
                   /\ last'.arg[1].name = last'.msg
             /\ last'.msg \notin DOMAIN overlays =>
                   /\ last'.ret = "raise"
                   /\ last'.exc = "unknown overlay"
                   /\ last'.arg = None]_vars

\* A read and a dictionary filled the mapping; select returned the entity
\* of "bar", which has two sources and priority 10.
C20_Witness ==
    /\ last.op = "select"
    /\ last.ret = "entity"
    /\ last.msg = "bar"
    /\ last.arg = Some([Entity("bar", <<2, 1>>, 10)
                           EXCEPT !.owner_name = Some("o")])
    /\ DOMAIN overlays = {"foo", "bar"}

\* The entities the document at path i defines, parsed on its own.
DefinedAt(i) == Read(EmptyMap, mcache[i][1], rignore).overlays
Existing == {i \in 1..Len(mcache) : mcache[i] # None}
LastDefining(n) ==
    CHOOSE i \in Existing :
        /\ n \in DOMAIN DefinedAt(i)
        /\ \A j \in Existing : n \in DOMAIN DefinedAt(j) => j <= i

\* C21 (SpecLoad).  A load that does not raise leaves in the mapping exactly
\* the names defined by a document of an existing path, each with the
\* entity parsed from the last path that defines it; paths that do not
\* exist are skipped, and when no path exists the load ends normally, with
\* a warning and an empty mapping.
C21_LaterPathWins ==
    /\ cpc \in {"loaded", "load_raised"} =>
          (cpc = "load_raised") =
              (\E i \in Existing : Read(EmptyMap, mcache[i][1], rignore).raised)
    /\ cpc = "loaded" =>
          /\ DOMAIN roverlays = UNION {DOMAIN DefinedAt(i) : i \in Existing}
          /\ \A n \in DOMAIN roverlays :
                roverlays[n] = DefinedAt(LastDefining(n))[n]
          /\ (Existing = {}) = (clast.kind = "loaded, warned")
          /\ Existing = {} => roverlays = EmptyMap

\* Both paths define "foo"; the mapping holds the one of the second path
\* and "bar" of the first.
C21_Witness ==
    /\ cpc = "loaded"
    /\ mcache = <<Some(DocTwo), Some(DocOne)>>
    /\ roverlays["foo"] = Entity("foo", <<1>>, DefaultPriority)
    /\ roverlays["bar"] = Entity("bar", <<1>>, DefaultPriority)

\* C22 (SpecEq).  A store whose entities each have a single source,
\* written to a file and loaded into a fresh store at any ignore level,
\* gives a store equal to the original.
C22_RoundTrip ==
    (last.op = "reload"
        /\ \A n \in DOMAIN overlays : Len(overlays[n].sources) = 1)
    => last.ret = "True"

\* The stores of the comparison that ended last, and what decides it.
Common == DOMAIN overlays \cap DOMAIN last.other[1]
AllEqual == \A n \in Common : OverlayEq(overlays[n], last.other[1][n])
Negation(r) ==
    IF r = "True" THEN "False" ELSE IF r = "False" THEN "True" ELSE r

\* C23 as claimed (SpecEq).  For stores with the same names __eq__ returns
\* True iff every name maps to equal entities; when a name is in only one
\* of the stores the comparison raises the missing-key error; __ne__ is the
\* negation of __eq__.
C23_MissingKeyAlwaysRaises ==
    last.op = "compare" =>
        /\ DOMAIN overlays = DOMAIN last.other[1] =>
              /\ last.ret \in {"True", "False"}
              /\ (last.ret = "True") = AllEqual
        /\ DOMAIN overlays # DOMAIN last.other[1] => last.ret = "KeyError"
        /\ last.msg = Negation(last.ret)

\* C23 as amended (SpecEq).  For stores with the same names __eq__ returns
\* True iff every name maps to equal entities.  When a name is in only one
\* of the stores it never returns True: it returns False when the iteration
\* over the names meets a name bound to unequal entities before any name
\* one store lacks, and raises the missing-key error otherwise.  __ne__
\* returns the negation of what __eq__ returns and raises when it raises.
C23_MissingKeyRaisesWhenReached ==
    last.op = "compare" =>
        /\ DOMAIN overlays = DOMAIN last.other[1] =>
              /\ last.ret \in {"True", "False"}
              /\ (last.ret = "True") = AllEqual
        /\ DOMAIN overlays # DOMAIN last.other[1] =>
              /\ last.ret \in {"False", "KeyError"}
              /\ (last.ret = "False") =
                    (\E i \in 1..Len(last.order) :
                        /\ \A j \in 1..i : last.order[j] \in Common
                        /\ ~OverlayEq(overlays[last.order[i]],
                                      last.other[1][last.order[i]]))
        /\ last.msg = Negation(last.ret)

\* One store has "foo" and "bar", the other a different "foo" only; the
\* iteration met "foo" first and the comparison returned False.
C23_Witness ==
    /\ last.op = "compare"
    /\ DOMAIN overlays = {"foo", "bar"}
    /\ DOMAIN last.other[1] = {"foo"}
    /\ last.order = <<"foo", "bar">>
    /\ last.ret = "False"
    /\ last.msg = "True"

\* C24 (SpecEntity).  From the same field values and at the same ignore
\* level, from_xml and from_dict both fail or both succeed with equal
\* entities that have at least one source; both reject a definition without
\* a source, and both accept an owner email given without an owner name.
C24_PathsAgree ==
    last.op = "construct" =>
        LET def == last.arg[1] IN
        /\ last.ret = last.msg
        /\ last.ret = "entity" =>
              /\ OverlayEq(last.after[1], last.other[1])
              /\ Len(last.after[1].sources) >= 1
              /\ Len(last.other[1].sources) >= 1
        /\ def.sources = <<>> => last.ret = "raise" /\ last.msg = "raise"
        /\ (def.name # None /\ def.sources = <<DictSource(1, "git")>>
               /\ def.email /\ ~def.owner_name /\ def.desc) =>
              /\ last.ret = "entity" /\ last.msg = "entity"
              /\ last.after[1].owner_email = Some("e")
              /\ last.other[1].owner_email = Some("e")

\* A definition has its required fields: a name and sources, all of a known
\* type.
Required(def) ==
    /\ def.name # None
    /\ def.sources # <<>>
    /\ \A i \in 1..Len(def.sources) : def.sources[i].type \in OverlayTypes

\* C25 (SpecRead).  Reading a node that lacks the owner email or the
\* description raises at ignore level 0, warns about the field and defaults
\* it at level 1, and defaults it silently at level 2; a node without a
\* name, without a source or with a source of unknown type fails at every
\* level; read stores an entity only when its construction went through,
\* and then with every field set.
C25_IgnoreLevels ==
    last.op = "read one" =>
        LET def == last.arg[1]
            level == last.res
            raised == last.ret = "raise"
        IN
        /\ ~Required(def) => raised
        /\ Required(def) =>
              /\ raised = (level = 0 /\ (~def.email \/ ~def.desc))
              /\ level = 1 =>
                    /\ ("owner.email" \in last.warned) = ~def.email
                    /\ ("description" \in last.warned) = ~def.desc
              /\ level # 1 => last.warned = {}
        /\ raised => overlays = EmptyMap /\ last.after = None
        /\ ~raised =>
              /\ DOMAIN overlays = {def.name[1]}
              /\ overlays[def.name[1]] = last.after[1]
              /\ Len(last.after[1].sources) = Len(def.sources)
              /\ last.after[1].owner_email =
                    (IF def.email THEN Some("e") ELSE Some(""))
              /\ last.after[1].description = (IF def.desc THEN "d" ELSE "")

\* A node without owner email and description was read at level 1: two
\* warnings, both fields defaulted, the entity stored.
C25_Witness ==
    /\ last.op = "read one"
    /\ last.res = 1
    /\ last.warned = {"owner.email", "description"}
    /\ DOMAIN overlays = {"foo"}
    /\ overlays["foo"].owner_email = Some("")
    /\ overlays["foo"].description = ""

\* The iterations of a cache call so far are one per URL, in configured
\* order: the k-th iteration is the one of the k-th URL, and there are no
\* more iterations than URLs.
OnePerUrl ==
    cpc # "idle" =>
        /\ Len(kinds) <= Len(Urls)
        /\ kinds # <<>> => clast.url = Len(kinds)
        /\ pos = (IF cpc = "raised" THEN Len(kinds) ELSE Len(kinds) + 1)

\* Overlay.add inside DB.add called no candidate twice.
OnePerCandidate ==
    last.op = "add" /\ last.steps # <<>> =>
        /\ \A i \in 1..Len(last.tried) :
              last.tried[i] \in 1..Len(last.arg[1].sources)
        /\ \A i, j \in 1..Len(last.tried) :
              i < j => last.tried[i] < last.tried[j]

\* C26 as stated (SpecOnce).  One cache call requests each URL at most once
\* and in order, one Overlay.add call calls each candidate at most once, and
\* every DB.sync call calls the backend's sync exactly once.
C26_SyncExactlyOnce ==
    /\ OnePerUrl
    /\ OnePerCandidate
    /\ last.op = "sync" => Len(last.backend) = 1

\* C26 amended (SpecOnce).  One cache call requests each URL at most once
\* and in order, one Overlay.add call calls each candidate at most once, and
\* a DB.sync call calls the backend's sync at most once: exactly once for a
\* registered overlay, not at all for a name the registry does not hold.
C26_NothingRetried ==
    /\ OnePerUrl
    /\ OnePerCandidate
    /\ last.op = "sync" =>
          Len(last.backend) = (IF last.exc = "unknown overlay" THEN 0 ELSE 1)

\* The backend's sync of a registered overlay failed and was called once.
C26_Witness ==
    /\ last.op = "sync"
    /\ last.res # 0
    /\ last.exc = "sync status"
    /\ Len(last.backend) = 1

\* The candidates that returned a status, and the last of them.
ReturnedAt(out) == {i \in 1..Len(out) : ~out[i].raised}
LastReturned(out) ==
    CHOOSE i \in ReturnedAt(out) : \A j \in ReturnedAt(out) : j <= i

\* C27 (SpecOverlay).  A candidate whose add raises is a failed candidate:
\* the loop goes on with the next one; when no candidate returns 0 every
\* candidate is attempted, the entity keeps its sources and the call
\* returns a non-zero status, that of the last candidate that returned one,
\* or 1 if none returned any.
C27_RaisingCandidateFails ==
    last.op = "overlay.add" =>
        LET out == last.out
            n == Len(out)
        IN
        /\ \A k \in 1..Len(last.tried) :
              out[last.tried[k]].raised /\ last.tried[k] < n =>
                  /\ k < Len(last.tried)
                  /\ last.tried[k + 1] = last.tried[k] + 1
        /\ (\A i \in 1..n : ~Succeeded(out, i)) =>
              /\ last.tried = UpTo(n)
              /\ entity = last.arg
              /\ last.res # 0
              /\ last.res = (IF ReturnedAt(out) = {} THEN 1
                             ELSE out[LastReturned(out)].status)

\* The first candidate returns 2, the second raises: both were attempted
\* and the call returns 2.
C27_Witness ==
    /\ last.op = "overlay.add"
    /\ last.out = <<Returned(2), Raised>>
    /\ last.tried = <<1, 2>>
    /\ last.res = 2

\* C28 (SpecCache).  The cache directory is created only after the fetched
\* body has been validated: an iteration whose body fails validation changes
\* nothing in the file system, neither the directory nor a file.
C28_ValidateThenCommit ==
    [][(StepTaken /\ clast'.kind = "parse_fails") =>
          /\ cacheDir' = cacheDir
          /\ mcache' = mcache
          /\ tcache' = tcache]_vars

\* C29 (SpecCache).  read is all-or-nothing on the mapping: a cache call
\* that raises on an invalid fetched body leaves the in-memory mapping as it
\* was before that body was read.
C29_ReadAllOrNothing ==
    [][(StepTaken /\ clast'.kind = "parse_fails") =>
          roverlays' = roverlays]_vars

\* What a RemoteDB constructed now would load from the cache files.
FreshLoad == LoadPaths(mcache, 1, EmptyMap, rignore, FALSE)

\* C30 (SpecCache).  After cache() has returned, the in-memory mapping is
\* the mapping a newly constructed RemoteDB would load from the cache files:
\* the same names, each bound to the entity of the last configured URL
\* whose cached document defines it.
C30_MemoryEqualsFreshLoad ==
    cpc = "returned" =>
        /\ ~FreshLoad.raised
        /\ roverlays = FreshLoad.overlays

\* C31 (Spec).  The status of the backend's delete has no influence on
\* DB.delete: once the backend was called for a known overlay, the name
\* leaves the mapping whatever the status, and when the store can be
\* written the file holds the remaining overlays, the external config is
\* notified and True is returned; the only trace of the status is the
\* record of it.
C31_DeleteIgnoresStatus ==
    [][(last'.op = "delete" /\ last'.backend # <<>>) =>
          LET name == last'.arg[1].name
              rest == [k \in DOMAIN overlays \ {name} |-> overlays[k]]
          IN
          /\ name \in DOMAIN overlays
          /\ overlays' = rest
          /\ last'.wrote = "ok" =>
                /\ localFile' = {ToXml(rest[k]) : k \in DOMAIN rest}
                /\ last'.notified = "delete"
                /\ last'.ret = "True"
          /\ last'.wrote # "ok" =>
                /\ localFile' = localFile
                /\ last'.ret = "raise"
                /\ last'.exc = "write"]_vars

\* The backend's delete returned 1 and DB.delete returned True with the
\* overlay gone from the mapping and from the file.
C31_Witness ==
    /\ last.op = "delete"
    /\ last.res = 1
    /\ last.ret = "True"
    /\ last.notified = "delete"
    /\ last.arg[1].name \notin DOMAIN overlays
    /\ last.arg[1].name \notin {n.name : n \in localFile}

\* The candidates an add with outcomes out attempts: all up to the first
\* that returns 0, every one when none does.
Attempted(out) ==
    IF \E k \in 1..Len(out) : Succeeded(out, k)
    THEN UpTo(CHOOSE k \in 1..Len(out) : FirstSuccess(out, k))
    ELSE UpTo(Len(out))

\* C32 (SpecOverlay).  An Overlay.add in which no candidate returns 0
\* leaves the entity's source list as it was, the same candidates in the
\* same order; the add that follows such a call on the same entity starts
\* again at the first candidate of the full list.
C32_FailedAddKeepsSources ==
    [][last'.op = "overlay.add" =>
          /\ last'.arg = entity
          /\ (\A i \in 1..Len(last'.out) : ~Succeeded(last'.out, i)) =>
                /\ last'.res # 0
                /\ entity'[1].sources = entity[1].sources
          /\ (last.op = "overlay.add" /\ last.res # 0) =>
                /\ last'.arg = last.arg
                /\ Len(last'.out) = Len(last.arg[1].sources)
                /\ last'.tried = Attempted(last'.out)]_vars

\* After an add in which the first candidate returned 1 and the second
\* raised, the entity still has both candidates in their order.
C32_Witness ==
    /\ last.op = "overlay.add"
    /\ last.out = <<Returned(1), Raised>>
    /\ last.res = 1
    /\ last.arg[1].sources = <<1, 2>>
    /\ entity[1].sources = <<1, 2>>

\* The position of the last node of a document that defines a name.
LastNodeOf(doc, name) ==
    CHOOSE i \in 1..Len(doc.nodes) :
        /\ doc.nodes[i].name = Some(name)
        /\ \A j \in (i + 1)..Len(doc.nodes) : doc.nodes[j].name # Some(name)

\* C33 (SpecDoc).  After read of a document, every name of the mapping is
\* bound to the entity of the node that defines it last in document order,
\* whichever tag, overlay or repo, the nodes carry.
C33_LastNodeInDocumentWins ==
    (last.op = "read doc" /\ last.ret = "None") =>
        LET doc == last.arg[1] IN
        /\ DOMAIN overlays = {doc.nodes[i].name[1] : i \in 1..Len(doc.nodes)}
        /\ \A name \in DOMAIN overlays :
              overlays[name] =
                  FromXml(doc.nodes[LastNodeOf(doc, name)], last.res).entity[1]

\* C34 (SpecGit).  GitOverlay.add does not return 0 when its clone command
\* returned a non-zero status, whatever the user.name and user.email
\* commands do (a raised exception counts as a failure, as it does for
\* Overlay.add); and it returns 1 without running any command when git is
\* not supported.
C34_CloneFailureIsReported ==
    last.op = "git.add" =>
        /\ ~last.arg[1].supported =>
              /\ last.ret = "status"
              /\ last.res = 1
              /\ last.steps = <<>>
        /\ (last.arg[1].supported /\ ~last.out[1].raised
                /\ last.out[1].status # 0) =>
              (last.ret = "raise" \/ last.res # 0)

=============================================================================
